---------------------------- MODULE Spec2Model ----------------------------
(***************************************************************************)
(* A model of the claude-meet command line front end                       *)
(* (src/claude_meet/cli.py, src/claude_meet/config.py).                    *)
(*                                                                         *)
(* Text that the code inspects character by character (input lines, the    *)
(* API key, integer settings) is a sequence of one-character strings, so   *)
(* that strip(), lower(), ' '.join() and int() are computed, not assumed.  *)
(* Text that the code only passes along (timezone names, error texts) is   *)
(* an atomic string.  An optional value (Python None, an unset result) is  *)
(* a sequence of length at most one: <<>> is None, <<x>> is x.             *)
(***************************************************************************)
EXTENDS Integers, Sequences, FiniteSets, TLC

VARIABLES
    cmd,                  \* the subcommand this process runs
    args,                 \* its command-line arguments and options
    pc,                   \* where the subcommand is
    exit_code,            \* <<>> while running, <<n>> once the process ended
    stdout,               \* lines echoed to the output stream since the last prompt
    stderr,               \* lines echoed to the error stream since the last prompt
    environ,              \* os.environ: a function from the names that are set
    files,                \* the files the front end reads and writes
    config,               \* <<>> or <<the Config object>>
    api_key,              \* <<>> or <<the key get_api_key returned>>
    conversation_history, \* chat: the session's list of messages
    last_call,            \* <<>> or <<the arguments of the last process_message call>>
    n_calls,              \* number of process_message calls made by this process
    cleared,              \* chat: a clear was handled and no message was forwarded since
    n_saves,              \* number of save_timezone calls made by this process
    user_input,           \* chat: <<>> or <<the line the last loop iteration read>>
    turn,                 \* chat: what the last loop iteration did
    events,               \* upcoming: <<>> or <<the events the gateway returned>>
    error,                \* <<>> or <<the error this run ended on>>
    is_first_run,         \* chat: <<>> or <<the value of is_first_run>>
    confirmed,            \* chat: <<>> or <<the answer to "Is this correct?">>
    connects,             \* chat: number of get_calendar_service calls made
    relay_history,        \* chat: the history the relay last returned, and last left
    n_clears,             \* number of clear_credentials calls made by this process
    runs                  \* logout: number of runs that ended before this one

vars == <<cmd, args, pc, exit_code, stdout, stderr, environ, files, config,
          api_key, conversation_history, last_call, n_calls, cleared,
          n_saves, user_input, turn, events, error, is_first_run, confirmed,
          connects, relay_history, n_clears, runs>>

----------------------------------------------------------------------------
(* Bounds of the model.                                                    *)

\* process_message calls one chat session may make
MaxCalls == 2

\* runs of logout made one after the other
MaxRuns == 2

----------------------------------------------------------------------------
(* Python text operations.                                                 *)

None == <<>>
Some(x) == <<x>>

Whitespace == {" ", "\t", "\n"}

UpperLetters == <<"A","B","C","D","E","F","G","H","I","J","K","L","M",
                  "N","O","P","Q","R","S","T","U","V","W","X","Y","Z">>
LowerLetters == <<"a","b","c","d","e","f","g","h","i","j","k","l","m",
                  "n","o","p","q","r","s","t","u","v","w","x","y","z">>

\* str.lower() on one character
LowerChar(c) ==
    IF \E i \in DOMAIN UpperLetters : UpperLetters[i] = c
    THEN LowerLetters[CHOOSE i \in DOMAIN UpperLetters : UpperLetters[i] = c]
    ELSE c

\* str.lower()
Lower(s) == [i \in DOMAIN s |-> LowerChar(s[i])]

RECURSIVE LStrip(_)
LStrip(s) ==
    IF s # <<>> /\ Head(s) \in Whitespace THEN LStrip(Tail(s)) ELSE s

RECURSIVE RStrip(_)
RStrip(s) ==
    IF s # <<>> /\ s[Len(s)] \in Whitespace
    THEN RStrip(SubSeq(s, 1, Len(s) - 1))
    ELSE s

\* str.strip()
Strip(s) == RStrip(LStrip(s))

\* truthiness of a Python str
Truthy(s) == s # <<>>


----------------------------------------------------------------------------
(* The process environment and the files the front end reads.              *)

\* os.getenv(name): None when the variable is not set
GetEnv(env, name) == IF name \in DOMAIN env THEN Some(env[name]) ELSE None

\* os.getenv(name, default)
GetEnvDefault(env, name, default) ==
    IF name \in DOMAIN env THEN env[name] ELSE default

\* the environment with one more variable set (or overwritten)
SetEnv(env, name, value) ==
    [n \in DOMAIN env \cup {name} |-> IF n = name THEN value ELSE env[n]]

\* the environment in which exactly the names chosen in c (a function from
\* names to optional values) are set
EnvOf(c) == [n \in {m \in DOMAIN c : c[m] # None} |-> c[n][1]]

----------------------------------------------------------------------------
(* get_api_key, cli.py lines 26-54.                                        *)

KeyNotFoundLines ==
    << <<"Error: Anthropic API key not found.">>,
       <<"Please set ANTHROPIC_API_KEY environment variable or create config/anthropic_apikey.txt">> >>

\* get_api_key with a fault: the file is looked at before the environment.
GetApiKey_FileFirst(env, key_file) ==
    LET e == GetEnv(env, "ANTHROPIC_API_KEY")
    IN  IF key_file # None /\ Truthy(Strip(key_file[1]))
        THEN [kind |-> "return", value |-> Strip(key_file[1])]
        ELSE IF e # None /\ Truthy(e[1])
        THEN [kind |-> "return", value |-> Strip(e[1])]
        ELSE [kind |-> "exit", code |-> 1, err |-> KeyNotFoundLines]

\* The outcome of get_api_key(): the key it returns, or the exit it makes.
GetApiKey(env, key_file) ==
    LET e == GetEnv(env, "ANTHROPIC_API_KEY")
    IN  IF e # None /\ Truthy(e[1])
        THEN [kind |-> "return", value |-> Strip(e[1])]
        ELSE IF key_file # None /\ Truthy(Strip(key_file[1]))
        THEN [kind |-> "return", value |-> Strip(key_file[1])]
        ELSE [kind |-> "exit", code |-> 1, err |-> KeyNotFoundLines]

----------------------------------------------------------------------------
(* Config.__init__, config.py lines 20-51.                                 *)

Digits == <<"0","1","2","3","4","5","6","7","8","9">>

IsDigit(c) == \E i \in DOMAIN Digits : Digits[i] = c

DigitValue(c) == (CHOOSE i \in DOMAIN Digits : Digits[i] = c) - 1

RECURSIVE DigitsValue(_)
DigitsValue(s) ==
    IF s = <<>> THEN 0
    ELSE 10 * DigitsValue(SubSeq(s, 1, Len(s) - 1)) + DigitValue(s[Len(s)])

\* int(s) on a str: surrounding whitespace and one sign are allowed, then
\* one or more decimal digits; None stands for the ValueError it raises.
IntOfStr(s) ==
    LET t == Strip(s)
        signed == t # <<>> /\ t[1] \in {"+", "-"}
        d == IF signed THEN Tail(t) ELSE t
    IN  IF d # <<>> /\ \A i \in DOMAIN d : IsDigit(d[i])
        THEN Some(IF signed /\ t[1] = "-" THEN 0 - DigitsValue(d) ELSE DigitsValue(d))
        ELSE None

TrueText == <<"t","r","u","e">>
FalseText == <<"f","a","l","s","e">>

\* os.getenv(name, default).lower() == 'true'
BoolSetting(env, name, default) == Lower(GetEnvDefault(env, name, default)) = TrueText

\* int(os.getenv(name, default)), None for a ValueError
IntSetting(env, name, default) == IntOfStr(GetEnvDefault(env, name, default))

\* A timezone name is the sequence of its '/'-separated parts.
DefaultTimezone == <<"Europe", "Berlin">>

IntSettingNames ==
    <<"BUSINESS_HOURS_START", "BUSINESS_HOURS_END", "DEFAULT_DURATION",
      "MAX_SUGGESTIONS", "CLAUDE_MAX_TOKENS">>

IntSettingDefaults ==
    << <<"9">>, <<"1","7">>, <<"6","0">>, <<"5">>, <<"2","0","0","0">> >>

\* The fields Config.__init__ sets, val[i] being the i-th integer setting.
ConfigFields(env, val) ==
    [default_timezone |-> GetEnvDefault(env, "TIMEZONE", DefaultTimezone),
     business_hours_start |-> val[1],
     business_hours_end |-> val[2],
     default_duration |-> val[3],
     max_suggestions |-> val[4],
     prefer_morning |-> BoolSetting(env, "PREFER_MORNING", TrueText),
     avoid_lunch |-> BoolSetting(env, "AVOID_LUNCH", TrueText),
     claude_model |-> GetEnvDefault(env, "CLAUDE_MODEL", "claude-sonnet-4-20250514"),
     claude_max_tokens |-> val[5],
     debug |-> BoolSetting(env, "DEBUG", FalseText),
     log_level |-> GetEnvDefault(env, "LOG_LEVEL", "INFO")]

\* The outcome of Config(): the object, or the ValueError of the first
\* int() that fails.
ConfigInit(env) ==
    LET val(i) == IntSetting(env, IntSettingNames[i], IntSettingDefaults[i])
    IN  IF \E i \in DOMAIN IntSettingNames : val(i) = None
        THEN [kind |-> "raise", error |-> "ValueError",
              setting |-> IntSettingNames[
                  CHOOSE i \in DOMAIN IntSettingNames :
                      /\ val(i) = None
                      /\ \A j \in DOMAIN IntSettingNames : val(j) = None => i <= j]]
        ELSE [kind |-> "ok",
              config |-> ConfigFields(env, [i \in DOMAIN IntSettingNames |-> val(i)[1]])]


----------------------------------------------------------------------------
(* Settings files, cli.py lines 101-107.                                   *)

\* load_dotenv(file, override): the variables of the file are set in the
\* environment; one that is already set is kept unless override is given.
LoadDotenv(env, file, override) ==
    IF file = None THEN env
    ELSE [n \in DOMAIN env \cup DOMAIN file[1] |->
            IF n \in DOMAIN file[1] /\ (override \/ n \notin DOMAIN env)
            THEN file[1][n] ELSE env[n]]

\* The environment after the project .env and then the per-user settings
\* file (with override) are loaded: chat, schedule and upcoming.
LoadSettings(env, fs) ==
    LoadDotenv(LoadDotenv(env, fs.project_env, FALSE), fs.user_env, TRUE)

\* The environment after the project .env and then the per-user settings
\* file (without override) are loaded: config, lines 410-416.
LoadSettingsNoOverride(env, fs) ==
    LoadDotenv(LoadDotenv(env, fs.project_env, FALSE), fs.user_env, FALSE)

\* clear_credentials(): the token file is deleted if there is one.
ClearCredentials(fs) == [fs EXCEPT !.token = FALSE]

\* save_timezone(tz): TIMEZONE=tz is written to the per-user settings file.
SaveTimezone(fs, tz) ==
    [fs EXCEPT !.user_env =
        Some(SetEnv(IF fs.user_env = None THEN <<>> ELSE fs.user_env[1],
                    "TIMEZONE", tz))]

----------------------------------------------------------------------------
(* The conversational relay, ClaudeClient.process_message.                 *)

Message(role, content) == [role |-> role, content |-> content]

\* what the LLM replies and what a calendar operation returns
ReplyText == <<"o","k">>
ToolResultText == <<"e","v","e","n","t">>

\* The outcomes of process_message(message, history): the text of the reply
\* and the history it returns, or the error it raises and the history it
\* leaves behind.  A call without a history starts from the empty one.
ProcessMessage(message, history) ==
    LET h0 == Append(history, Message("user", message))
        h1 == Append(h0, Message("tool-result", ToolResultText))
    IN  { [kind |-> "return", response |-> ReplyText,
           history |-> Append(h0, Message("assistant", ReplyText))],
          [kind |-> "return", response |-> ReplyText,
           history |-> Append(h1, Message("assistant", ReplyText))],
          [kind |-> "raise", error |-> "LlmApiError", history |-> h0],
          [kind |-> "raise", error |-> "CalendarApiError", history |-> h0],
          [kind |-> "raise", error |-> "LlmApiError", history |-> h1] }

\* What the session knows of the relay's calls since the history was last
\* empty: the history the last call that returned did return, and the
\* history the last call, returning or raising, left behind.
NoRelayHistory == [returned |-> <<>>, left |-> <<>>]

----------------------------------------------------------------------------
(* The chat loop's reading of one input line, cli.py lines 174-209.        *)

ExitCommands == { <<"e","x","i","t">>, <<"q","u","i","t">>, <<"q">> }
HelpCommand == <<"h","e","l","p">>
ClearCommand == <<"c","l","e","a","r">>
ConfigCommands == { <<"c","o","n","f","i","g">>,
                    <<"s","e","t","t","i","n","g","s">>,
                    <<"t","i","m","e","z","o","n","e">> }

\* Dispatch with a fault: the comparisons forget lower().
Dispatch_CaseSensitive(line) ==
    IF ~Truthy(line) \/ ~Truthy(Strip(line)) THEN "empty"
    ELSE LET u == Strip(line)
         IN  IF u \in ExitCommands THEN "exit"
             ELSE IF u = HelpCommand THEN "help"
             ELSE IF u = ClearCommand THEN "clear"
             ELSE IF u \in ConfigCommands THEN "config"
             ELSE "message"

\* The branch of the loop body that an input line takes.
Dispatch(line) ==
    IF ~Truthy(line) \/ ~Truthy(Strip(line)) THEN "empty"
    ELSE LET u == Strip(line)
         IN  IF Lower(u) \in ExitCommands THEN "exit"
             ELSE IF Lower(u) = HelpCommand THEN "help"
             ELSE IF Lower(u) = ClearCommand THEN "clear"
             ELSE IF Lower(u) \in ConfigCommands THEN "config"
             ELSE "message"

\* The lines a user enters at the prompt.
InputLines ==
    { <<>>, <<" ">>,
      <<" ","H","E","L","P"," ">>,
      <<"C","l","e","a","r","\t">>,
      <<"e","x","i","t">>, <<"Q","u","i","t">>, <<" ","q">>,
      <<"c","o","n","f","i","g">>, <<"S","e","t","t","i","n","g","s">>,
      <<"t","i","m","e","z","o","n","e"," ">>,
      <<"h","i">>, <<" ","Q"," ","a"," ">> }

\* the branch each of these lines takes, and what is left of it once trimmed
BranchOf == [line \in InputLines |-> Dispatch(line)]
Trimmed == [line \in InputLines |-> Strip(line)]

----------------------------------------------------------------------------
(* The chat subcommand: start-up, cli.py lines 101-159.                    *)

\* the traceback Python prints for an exception
Traceback(e) == <<"Traceback (most recent call last):", e>>

\* IsFirstRun with a fault: every run is taken for the first.
IsFirstRun_EveryRun(env, fs) == TRUE

\* is_first_run, line 112: there is no per-user settings file and, once the
\* settings are loaded, TIMEZONE is unset or empty
IsFirstRun(env, fs) ==
    LET tz == GetEnv(env, "TIMEZONE")
    IN  fs.user_env = None /\ ~(tz # None /\ Truthy(tz[1]))

\* load the settings, build the Config, greet, and on a first run ask
\* whether the detected timezone is right
ChatStart ==
    /\ cmd = "chat" /\ pc = "start"
    /\ LET env1 == LoadSettings(environ, files)
           c == ConfigInit(env1)
           first == IsFirstRun(env1, files)
           banner(z) ==
               << <<"  Claude Calendar Scheduler">>,
                  <<"  Timezone: ", z, IF first THEN " (auto-detected)" ELSE "">>,
                  <<"  Type 'help' for commands, 'exit' to quit">> >>
           asked(z) ==
               << <<"First time setup:">>,
                  <<"  Your timezone was auto-detected as ", z>> >>
       IN  /\ environ' = env1
           /\ IF c.kind = "raise"
              THEN \* nothing catches the ValueError of Config()
                   /\ pc' = "done"
                   /\ exit_code' = Some(1)
                   /\ error' = Some(c.error)
                   /\ stdout' = <<>>
                   /\ stderr' = <<Traceback(c.error)>>
                   /\ UNCHANGED <<config, files, n_saves, is_first_run, confirmed>>
              ELSE /\ config' = Some(c.config)
                   /\ stderr' = <<>>
                   /\ error' = None
                   /\ is_first_run' = Some(first)
                   /\ \E answer \in BOOLEAN :
                        IF ~first
                        THEN /\ stdout' = banner(c.config.default_timezone)
                             /\ pc' = "connect"
                             /\ UNCHANGED <<exit_code, files, n_saves, confirmed>>
                        ELSE IF ~answer
                        THEN /\ confirmed' = Some(FALSE)
                             /\ stdout' = banner(c.config.default_timezone)
                                   \o asked(c.config.default_timezone)
                                   \o << <<"  Run 'claude-meet setup' to configure your timezone.">>,
                                         <<"  Then run 'claude-meet chat' again.">> >>
                             /\ pc' = "done"
                             /\ exit_code' = Some(0)
                             /\ UNCHANGED <<files, n_saves>>
                        ELSE /\ confirmed' = Some(TRUE)
                             /\ files' = SaveTimezone(files, c.config.default_timezone)
                             /\ n_saves' = n_saves + 1
                             /\ stdout' = banner(c.config.default_timezone)
                                   \o asked(c.config.default_timezone)
                                   \o << <<"  Timezone saved!">> >>
                             /\ pc' = "connect"
                             /\ UNCHANGED exit_code
    /\ UNCHANGED <<cmd, args, api_key, conversation_history, last_call,
                   n_calls, cleared, user_input, turn, events>>
    /\ UNCHANGED <<connects, relay_history, n_clears, runs>>

\* what get_calendar_service() does: it returns the service or raises
CalendarServiceOutcomes == {"ok", "FileNotFoundError", "Exception"}

\* connect to the calendar
ChatConnect ==
    /\ cmd = "chat" /\ pc = "connect"
    /\ \E r \in CalendarServiceOutcomes :
         IF r = "ok"
         THEN /\ stdout' = << <<"Connecting to Google Calendar...">>, <<"Connected!">> >>
              /\ stderr' = <<>>
              /\ pc' = "apikey"
              /\ UNCHANGED <<exit_code, error>>
         ELSE /\ stdout' = << <<"Connecting to Google Calendar...">> >>
              /\ stderr' =
                    IF r = "FileNotFoundError"
                    THEN << <<"Setup required: ", r>>,
                            <<"Please follow the setup instructions in docs/SETUP.md">> >>
                    ELSE << <<"Error connecting to Google Calendar: ", r>> >>
                         \o (IF args.debug THEN <<Traceback(r)>> ELSE <<>>)
              /\ pc' = "done"
              /\ exit_code' = Some(1)
              /\ error' = Some(r)
    /\ connects' = connects + 1
    /\ UNCHANGED <<cmd, args, environ, files, config, api_key,
                   conversation_history, last_call, n_calls, cleared, n_saves,
                   user_input, turn, events>>
    /\ UNCHANGED <<is_first_run, confirmed, relay_history, n_clears, runs>>

\* resolve the API key, build the clients and start with an empty history
ChatApiKey ==
    /\ cmd = "chat" /\ pc = "apikey"
    /\ LET k == GetApiKey(environ, files.key_file)
       IN  IF k.kind = "return"
           THEN /\ api_key' = Some(k.value)
                /\ conversation_history' = <<>>
                /\ pc' = "prompt"
                /\ stdout' = <<>>
                /\ stderr' = <<>>
                /\ UNCHANGED <<exit_code, error>>
           ELSE /\ stderr' = k.err
                /\ stdout' = <<>>
                /\ pc' = "done"
                /\ exit_code' = Some(k.code)
                /\ error' = Some("SystemExit")
                /\ UNCHANGED <<api_key, conversation_history>>
    /\ UNCHANGED <<cmd, args, environ, files, config, last_call, n_calls,
                   cleared, n_saves, user_input, turn, events>>
    /\ UNCHANGED <<is_first_run, confirmed, connects, relay_history, n_clears, runs>>

----------------------------------------------------------------------------
(* The chat subcommand: the conversation loop, cli.py lines 161-223.       *)

\* what no iteration of the loop changes
ChatFrame ==
    UNCHANGED <<cmd, args, environ, files, config, api_key, n_saves, events,
                is_first_run, confirmed, connects, n_clears, runs>>

\* an iteration that neither forwards a message nor ends the loop
ChatNoCall ==
    /\ pc' = "prompt"
    /\ UNCHANGED <<exit_code, error, last_call, n_calls>>

\* HandleTurnError with a fault: the handler ends the session.
HandleTurnError_EndsSession(e, left) ==
    /\ stderr' = << <<"Error: ", e>> >>
                 \o (IF args.debug THEN <<Traceback(e)>> ELSE <<>>)
    /\ conversation_history' = left
    /\ pc' = "done"
    /\ exit_code' = Some(1)
    /\ error' = Some(e)

\* HandleTurnError with a fault: the handler starts the history afresh.
HandleTurnError_ResetsHistory(e, left) ==
    /\ stderr' = << <<"Error: ", e>> >>
                 \o (IF args.debug THEN <<Traceback(e)>> ELSE <<>>)
    /\ conversation_history' = <<>>
    /\ pc' = "prompt"
    /\ UNCHANGED <<exit_code, error>>

\* except Exception, lines 218-223: the error e is reported and the loop
\* goes on.  The handler assigns nothing to conversation_history: the
\* session keeps the list it passed, as the failed call left it.
HandleTurnError(e, left) ==
    /\ stderr' = << <<"Error: ", e>> >>
                 \o (IF args.debug THEN <<Traceback(e)>> ELSE <<>>)
    /\ conversation_history' = left
    /\ pc' = "prompt"
    /\ UNCHANGED <<exit_code, error>>

\* an empty line is skipped silently
ChatEmpty ==
    /\ cmd = "chat" /\ pc = "prompt"
    /\ \E line \in InputLines :
         /\ BranchOf[line] = "empty"
         /\ user_input' = Some(line)
    /\ turn' = "empty"
    /\ stdout' = <<>>
    /\ stderr' = <<>>
    /\ ChatNoCall
    /\ UNCHANGED <<conversation_history, cleared, relay_history>>
    /\ ChatFrame

\* exit, quit, q: the loop ends and chat returns
ChatExit ==
    /\ cmd = "chat" /\ pc = "prompt"
    /\ \E line \in InputLines :
         /\ BranchOf[line] = "exit"
         /\ user_input' = Some(line)
    /\ turn' = "exit"
    /\ stdout' = << <<"Goodbye! Have a productive day!">> >>
    /\ stderr' = <<>>
    /\ pc' = "done"
    /\ exit_code' = Some(0)
    /\ UNCHANGED <<error, last_call, n_calls, conversation_history, cleared,
                   relay_history>>
    /\ ChatFrame

\* help
ChatHelp ==
    /\ cmd = "chat" /\ pc = "prompt"
    /\ \E line \in InputLines :
         /\ BranchOf[line] = "help"
         /\ user_input' = Some(line)
    /\ turn' = "help"
    /\ stdout' = << <<"help_text">> >>
    /\ stderr' = <<>>
    /\ ChatNoCall
    /\ UNCHANGED <<conversation_history, cleared, relay_history>>
    /\ ChatFrame

\* ChatClear with a fault: the screen is cleared and the history is kept.
ChatClear_KeepsHistory ==
    /\ cmd = "chat" /\ pc = "prompt"
    /\ \E line \in InputLines :
         /\ BranchOf[line] = "clear"
         /\ user_input' = Some(line)
    /\ turn' = "clear"
    /\ cleared' = TRUE
    /\ stdout' = << <<"Conversation cleared.">> >>
    /\ stderr' = <<>>
    /\ ChatNoCall
    /\ relay_history' = NoRelayHistory
    /\ UNCHANGED conversation_history
    /\ ChatFrame

\* clear: the session goes on with a new, empty history
ChatClear ==
    /\ cmd = "chat" /\ pc = "prompt"
    /\ \E line \in InputLines :
         /\ BranchOf[line] = "clear"
         /\ user_input' = Some(line)
    /\ turn' = "clear"
    /\ conversation_history' = <<>>
    /\ relay_history' = NoRelayHistory
    /\ cleared' = TRUE
    /\ stdout' = << <<"Conversation cleared.">> >>
    /\ stderr' = <<>>
    /\ ChatNoCall
    /\ ChatFrame

\* config, settings, timezone: the timezone of the session is shown
ChatConfig ==
    /\ cmd = "chat" /\ pc = "prompt"
    /\ \E line \in InputLines :
         /\ BranchOf[line] = "config"
         /\ user_input' = Some(line)
    /\ turn' = "config"
    /\ stdout' = << <<"Current timezone: ", config[1].default_timezone>>,
                    <<"To change: exit and run 'claude-meet setup'">> >>
    /\ stderr' = <<>>
    /\ ChatNoCall
    /\ UNCHANGED <<conversation_history, cleared, relay_history>>
    /\ ChatFrame

\* ChatMessageReturns with a fault: the reply is shown and the history the
\* relay returned is dropped.
ChatMessageReturns_DropsHistory ==
    /\ cmd = "chat" /\ pc = "prompt"
    /\ n_calls < MaxCalls
    /\ \E line \in InputLines :
         /\ BranchOf[line] = "message"
         /\ user_input' = Some(line)
         /\ last_call' = Some(<<Trimmed[line], conversation_history>>)
         /\ \E o \in ProcessMessage(Trimmed[line], conversation_history) :
              /\ o.kind = "return"
              /\ relay_history' = [returned |-> o.history, left |-> o.history]
              /\ stdout' = << <<"">>, <<"Claude: ", o.response>>, <<"">> >>
    /\ n_calls' = n_calls + 1
    /\ cleared' = FALSE
    /\ turn' = "returned"
    /\ stderr' = <<>>
    /\ pc' = "prompt"
    /\ UNCHANGED <<exit_code, error, conversation_history>>
    /\ ChatFrame

\* any other line is forwarded to the relay, which returns: the reply is
\* shown and the returned history becomes the session's
ChatMessageReturns ==
    /\ cmd = "chat" /\ pc = "prompt"
    /\ n_calls < MaxCalls
    /\ \E line \in InputLines :
         /\ BranchOf[line] = "message"
         /\ user_input' = Some(line)
         /\ last_call' = Some(<<Trimmed[line], conversation_history>>)
         /\ \E o \in ProcessMessage(Trimmed[line], conversation_history) :
              /\ o.kind = "return"
              /\ conversation_history' = o.history
              /\ relay_history' = [returned |-> o.history, left |-> o.history]
              /\ stdout' = << <<"">>, <<"Claude: ", o.response>>, <<"">> >>
    /\ n_calls' = n_calls + 1
    /\ cleared' = FALSE
    /\ turn' = "returned"
    /\ stderr' = <<>>
    /\ pc' = "prompt"
    /\ UNCHANGED <<exit_code, error>>
    /\ ChatFrame

\* any other line is forwarded to the relay, which raises
ChatMessageRaises ==
    /\ cmd = "chat" /\ pc = "prompt"
    /\ n_calls < MaxCalls
    /\ \E line \in InputLines :
         /\ BranchOf[line] = "message"
         /\ user_input' = Some(line)
         /\ last_call' = Some(<<Trimmed[line], conversation_history>>)
         /\ \E o \in ProcessMessage(Trimmed[line], conversation_history) :
              /\ o.kind = "raise"
              /\ HandleTurnError(o.error, o.history)
              /\ relay_history' = [relay_history EXCEPT !.left = o.history]
    /\ n_calls' = n_calls + 1
    /\ cleared' = FALSE
    /\ turn' = "raised"
    /\ stdout' = << <<"">>, <<"">> >>
    /\ ChatFrame

\* click.prompt itself raises (the input ended): the same handler
ChatPromptRaises ==
    /\ cmd = "chat" /\ pc = "prompt"
    /\ HandleTurnError("Abort", conversation_history)
    /\ user_input' = None
    /\ turn' = "prompt_raised"
    /\ stdout' = << <<"">> >>
    /\ UNCHANGED <<last_call, n_calls, cleared, relay_history>>
    /\ ChatFrame

\* except KeyboardInterrupt, lines 215-217, while the loop waits for input
ChatInterruptAtPrompt ==
    /\ cmd = "chat" /\ pc = "prompt"
    /\ user_input' = None
    /\ turn' = "interrupt"
    /\ stdout' = << <<"Goodbye!">> >>
    /\ stderr' = <<>>
    /\ pc' = "done"
    /\ exit_code' = Some(0)
    /\ UNCHANGED <<error, last_call, n_calls, conversation_history, cleared,
                   relay_history>>
    /\ ChatFrame

\* except KeyboardInterrupt, lines 215-217, while the relay is at work
ChatInterruptInTurn ==
    /\ cmd = "chat" /\ pc = "prompt"
    /\ n_calls < MaxCalls
    /\ \E line \in InputLines :
         /\ BranchOf[line] = "message"
         /\ user_input' = Some(line)
         /\ last_call' = Some(<<Trimmed[line], conversation_history>>)
         /\ \E o \in ProcessMessage(Trimmed[line], conversation_history) :
              conversation_history' \in {conversation_history, o.history}
    /\ n_calls' = n_calls + 1
    /\ cleared' = FALSE
    /\ turn' = "interrupt"
    /\ stdout' = << <<"">>, <<"Goodbye!">> >>
    /\ stderr' = <<>>
    /\ pc' = "done"
    /\ exit_code' = Some(0)
    /\ UNCHANGED <<error, relay_history>>
    /\ ChatFrame

\* the environments and files a chat session starts in
ChatEnvironments ==
    { EnvOf([TIMEZONE |-> tz, ANTHROPIC_API_KEY |-> key, BUSINESS_HOURS_START |-> bhs]) :
        tz \in {None, Some(<<>>), Some(<<"Europe", "London">>)},
        key \in {None, Some(<<"k">>)},
        bhs \in {None, Some(<<"a","b","c">>)} }

\* no settings file at all, the per-user one alone, the project .env alone
ChatFiles ==
    { [project_env |-> p, user_env |-> u, key_file |-> None, token |-> TRUE] :
        <<p, u>> \in { <<None, None>>,
                       <<None, Some([TIMEZONE |-> <<"Asia", "Tokyo">>])>>,
                       <<Some([TIMEZONE |-> <<"America", "New_York">>]), None>> } }

InitChat ==
    /\ cmd = "chat"
    /\ args \in [debug : BOOLEAN]
    /\ pc = "start"
    /\ exit_code = None
    /\ stdout = <<>>
    /\ stderr = <<>>
    /\ environ \in ChatEnvironments
    /\ files \in ChatFiles
    \* the project .env and the empty TIMEZONE are each taken on their own
    /\ files.project_env # None => "TIMEZONE" \notin DOMAIN environ
    /\ GetEnv(environ, "TIMEZONE") = Some(<<>>) => files.user_env = None
    /\ config = None
    /\ api_key = None
    /\ conversation_history = <<>>
    /\ last_call = None
    /\ n_calls = 0
    /\ cleared = FALSE
    /\ n_saves = 0
    /\ user_input = None
    /\ turn = "none"
    /\ events = None
    /\ error = None
    /\ is_first_run = None
    /\ confirmed = None
    /\ connects = 0
    /\ relay_history = NoRelayHistory
    /\ n_clears = 0
    /\ runs = 0

Next ==
    \/ ChatStart
    \/ ChatConnect
    \/ ChatApiKey
    \/ ChatEmpty
    \/ ChatExit
    \/ ChatHelp
    \/ ChatClear
    \/ ChatConfig
    \/ ChatMessageReturns
    \/ ChatMessageRaises
    \/ ChatPromptRaises
    \/ ChatInterruptAtPrompt
    \/ ChatInterruptInTurn

Spec == InitChat /\ [][Next]_vars

----------------------------------------------------------------------------
(* Claims about the chat loop, checked under Spec.                         *)

\* the loop was entered: the clients were built
InLoop == cmd = "chat" /\ api_key # None

\* C1: a turn in which the relay raises does not end the session: the error
\* is reported on the error stream and the loop awaits input again, where a
\* further message is accepted and forwarded; the loop ends only on an exit
\* command or a keyboard interrupt.
C1_FailedTurnKeepsSession ==
    InLoop =>
        /\ turn = "raised" =>
              /\ pc = "prompt"
              /\ exit_code = None
              /\ \E i \in DOMAIN stderr : stderr[i][1] = "Error: "
              /\ n_calls < MaxCalls => ENABLED ChatMessageReturns
        /\ pc = "done" => turn \in {"exit", "interrupt"}

\* C1 witness: a message was forwarded and answered in the turn after a
\* turn that failed (the history it was sent with ends with the failed
\* turn's leftovers, not with a reply).
C1_Witness ==
    /\ InLoop /\ pc = "prompt" /\ turn = "returned"
    /\ last_call[1][2] # <<>>
    /\ last_call[1][2][Len(last_call[1][2])].role # "assistant"

\* the last turn raised during the calendar operation
C2_FailedCalendarTurn ==
    InLoop /\ turn = "raised" /\ stderr[1] = <<"Error: ", "CalendarApiError">>

\* C2: after a turn that raised during the calendar operation the session
\* holds the history from before the turn plus that turn's user message and
\* nothing else, and that is the history the next turn is sent with.
C2_HistoryAfterCalendarFailure ==
    /\ [](C2_FailedCalendarTurn =>
            conversation_history =
                Append(last_call[1][2], Message("user", last_call[1][1])))
    /\ [][(C2_FailedCalendarTurn /\ n_calls' = n_calls + 1) =>
            last_call'[1][2] =
                Append(last_call[1][2], Message("user", last_call[1][1]))]_vars

\* C2 witness: a calendar failure in a turn that started from a history
\* that was not empty.
C2_Witness == C2_FailedCalendarTurn /\ last_call[1][2] # <<>>

\* the eight words of the meta-commands
C3_MetaWords ==
    { <<"h","e","l","p">>, <<"c","l","e","a","r">>, <<"e","x","i","t">>,
      <<"q","u","i","t">>, <<"q">>, <<"c","o","n","f","i","g">>,
      <<"s","e","t","t","i","n","g","s">>, <<"t","i","m","e","z","o","n","e">> }

\* C3: a line that trimmed and lower-cased is help, clear, exit, quit, q,
\* config, settings or timezone is never passed to process_message: handling
\* it makes no call, in any state of the session.
C3_MetaCommandsNotForwarded ==
    [][(InLoop /\ pc = "prompt" /\ user_input' # None
            /\ Lower(Strip(user_input'[1])) \in C3_MetaWords)
        => (n_calls' = n_calls /\ last_call' = last_call)]_vars

\* C3 witness: a help line in capitals with blanks around it was handled in
\* a session that had forwarded a message before.
C3_Witness ==
    /\ InLoop /\ turn = "help" /\ n_calls = 1
    /\ user_input = Some(<<" ","H","E","L","P"," ">>)
    /\ conversation_history # <<>>

\* C4: clear discards the history: the first message forwarded after a
\* clear is sent with the empty history, whatever turns came before.
C4_ClearDiscardsHistory ==
    [][(InLoop /\ pc = "prompt") =>
        /\ turn' = "clear" => conversation_history' = <<>>
        /\ (cleared /\ n_calls' = n_calls + 1) => last_call'[1][2] = <<>>]_vars

\* C4 witness: the second message of a session went out with the empty
\* history (the first one left a history behind, so a clear came between).
C4_Witness ==
    /\ InLoop /\ n_calls >= 2 /\ turn \in {"returned", "raised"}
    /\ last_call[1][2] = <<>>

\* an iteration of the loop that handled help, config/settings/timezone or
\* an empty line
C13_QuietTurn == pc = "prompt" /\ turn' \in {"help", "config", "empty"}

\* an iteration of the loop whose process_message call raised
C13_FailedTurn == pc = "prompt" /\ turn' = "raised"

\* C13 as stated: the history passed to each process_message call is the
\* history returned by the most recent earlier call that returned since the
\* last clear (the empty history if there is none); help,
\* config/settings/timezone, empty lines and failed turns leave the
\* session's history unchanged.
C13_HistoryIsLastReturned ==
    [][ /\ n_calls' = n_calls + 1 => last_call'[1][2] = relay_history.returned
        /\ (C13_QuietTurn \/ C13_FailedTurn) =>
              conversation_history' = conversation_history ]_vars

\* C13 as amended: the history passed to each process_message call is the
\* history the most recent earlier call since the last clear left to the
\* session (the empty history if there is none): the history it returned,
\* or, when it raised, the history it was given followed by what the relay
\* had appended by then, the user's message first.  help,
\* config/settings/timezone and empty lines leave the session's history
\* unchanged.
C13_HistoryIsLastLeft ==
    [][ /\ n_calls' = n_calls + 1 => last_call'[1][2] = relay_history.left
        /\ C13_QuietTurn => conversation_history' = conversation_history
        /\ C13_FailedTurn =>
              /\ Len(conversation_history') > Len(conversation_history)
              /\ SubSeq(conversation_history', 1, Len(conversation_history) + 1)
                    = Append(conversation_history,
                             Message("user", Strip(user_input'[1])))
              /\ conversation_history' = relay_history'.left ]_vars

\* C13 witness: after a turn that failed and a help, a second message went
\* out with the history the failed turn left: the first message alone.
C13_Witness ==
    /\ InLoop /\ n_calls = 2 /\ turn \in {"returned", "raised"}
    /\ Len(last_call[1][2]) = 1
    /\ last_call[1][2][1].role = "user"
    /\ relay_history.returned # relay_history.left \/ turn = "returned"

\* C15, what holds in every state of a chat run: the answer is asked for on
\* a first run only; after a "no" the run has ended with nothing saved, no
\* calendar connection, no API key and no LLM call; after a "yes" the
\* timezone was saved once and the saved value is the session's; no external
\* call precedes the answer; a run that is not the first saves nothing.
C15_Startup ==
    cmd = "chat" =>
        /\ confirmed # None <=> is_first_run = Some(TRUE)
        /\ confirmed = Some(FALSE) =>
              /\ pc = "done" /\ exit_code = Some(0)
              /\ n_saves = 0 /\ files.user_env = None
              /\ connects = 0 /\ api_key = None /\ n_calls = 0
        /\ confirmed = Some(TRUE) =>
              /\ n_saves = 1
              /\ files.user_env # None
              /\ files.user_env[1]["TIMEZONE"] = config[1].default_timezone
        /\ (connects > 0 \/ api_key # None \/ n_calls > 0) =>
              /\ is_first_run # None
              /\ is_first_run = Some(TRUE) => confirmed = Some(TRUE)
        /\ is_first_run # Some(TRUE) => n_saves = 0
        /\ n_saves <= 1

\* C15, the order of the steps: the timezone is saved before the calendar
\* connection is attempted, and nothing else writes the settings file.
C15_SaveFirst ==
    /\ n_saves' # n_saves =>
          /\ n_saves' = n_saves + 1
          /\ connects = 0 /\ connects' = 0 /\ api_key' = None /\ n_calls' = 0
    /\ files' # files => n_saves' # n_saves

\* a first run as stated: no per-user settings file, and TIMEZONE unset
C15_FirstRunAsStated ==
    /\ files.user_env = None
    /\ "TIMEZONE" \notin DOMAIN LoadSettings(environ, files)

\* a first run as amended: no per-user settings file, and TIMEZONE unset or
\* empty once the project .env is loaded
C15_FirstRunUnsetOrEmpty ==
    /\ files.user_env = None
    /\ \/ "TIMEZONE" \notin DOMAIN LoadSettings(environ, files)
       \/ LoadSettings(environ, files)["TIMEZONE"] = <<>>

\* C15 as stated: on a first run of chat (no per-user settings file and
\* TIMEZONE unset) the confirmation precedes every external call: after a
\* "no" chat returns without saving, connecting, resolving the key or
\* calling the LLM; after a "yes" the timezone is saved exactly once, before
\* the connection is attempted, and the saved value is the session's.  On
\* any other run no timezone is saved.
C15_ConfirmationFirst ==
    /\ []C15_Startup
    /\ [][ /\ C15_SaveFirst
           /\ (pc = "start" /\ is_first_run' # None) =>
                 is_first_run' = Some(C15_FirstRunAsStated) ]_vars

\* C15 as amended: the same, a first run being one with no per-user settings
\* file and TIMEZONE unset or empty once the project .env is loaded.
C15_ConfirmationFirstUnsetOrEmpty ==
    /\ []C15_Startup
    /\ [][ /\ C15_SaveFirst
           /\ (pc = "start" /\ is_first_run' # None) =>
                 is_first_run' = Some(C15_FirstRunUnsetOrEmpty) ]_vars

\* C15 witness: a first run where the answer was yes; the timezone was
\* saved once, then the calendar was connected, the key resolved and a
\* message forwarded.
C15_Witness ==
    /\ cmd = "chat" /\ is_first_run = Some(TRUE) /\ confirmed = Some(TRUE)
    /\ n_saves = 1 /\ connects = 1 /\ api_key # None /\ n_calls = 1

----------------------------------------------------------------------------
(* get_api_key and Config() on their own, over every environment.          *)

\* what the environment variable and the key file may hold
KeyTexts ==
    { <<>>, <<" ">>, <<"\t", "\n">>, <<"k">>, <<" ", "k">>, <<"k", "\n">>,
      <<" ", "k", "1", " ">> }

\* the state in which a function, not a subcommand, is called
InitCall(name, envs, fss) ==
    /\ cmd = name
    /\ args = <<>>
    /\ pc = "start"
    /\ exit_code = None
    /\ stdout = <<>>
    /\ stderr = <<>>
    /\ environ \in envs
    /\ files \in fss
    /\ config = None
    /\ api_key = None
    /\ conversation_history = <<>>
    /\ last_call = None
    /\ n_calls = 0
    /\ cleared = FALSE
    /\ n_saves = 0
    /\ user_input = None
    /\ turn = "none"
    /\ events = None
    /\ error = None
    /\ is_first_run = None
    /\ confirmed = None
    /\ connects = 0
    /\ relay_history = NoRelayHistory
    /\ n_clears = 0
    /\ runs = 0

InitKey ==
    InitCall("get_api_key",
             { EnvOf([ANTHROPIC_API_KEY |-> e]) :
                 e \in {None} \cup {Some(t) : t \in KeyTexts} },
             [project_env : {None}, user_env : {None},
              key_file : {None} \cup {Some(t) : t \in KeyTexts},
              token : {TRUE}])

\* one call of get_api_key(): it returns the key, or it ends the process
GetApiKeyCall ==
    /\ cmd = "get_api_key" /\ pc = "start"
    /\ LET k == GetApiKey(environ, files.key_file)
       IN  IF k.kind = "return"
           THEN /\ api_key' = Some(k.value)
                /\ UNCHANGED <<exit_code, stderr, error>>
           ELSE /\ exit_code' = Some(k.code)
                /\ stderr' = k.err
                /\ error' = Some("SystemExit")
                /\ UNCHANGED api_key
    /\ pc' = "done"
    /\ UNCHANGED <<cmd, args, stdout, environ, files, config,
                   conversation_history, last_call, n_calls, cleared, n_saves,
                   user_input, turn, events>>
    /\ UNCHANGED <<is_first_run, confirmed, connects, relay_history, n_clears, runs>>

NextKey == GetApiKeyCall

SpecKey == InitKey /\ [][NextKey]_vars

\* what the settings' environment variables may hold
ConfigEnvironments ==
    { EnvOf([TIMEZONE |-> tz, BUSINESS_HOURS_START |-> bhs,
             BUSINESS_HOURS_END |-> bhe, DEFAULT_DURATION |-> dur,
             MAX_SUGGESTIONS |-> sug, CLAUDE_MAX_TOKENS |-> tok,
             PREFER_MORNING |-> pm, AVOID_LUNCH |-> al, DEBUG |-> dbg,
             LOG_LEVEL |-> ll]) :
        tz \in {None, Some(<<"UTC">>)},
        bhs \in {None, Some(<<"8">>), Some(<<"a","b","c">>), Some(<<>>)},
        bhe \in {None, Some(<<" ","1","8"," ">>), Some(<<"1","8",".","5">>)},
        dur \in {None, Some(<<"-","3","0">>)},
        sug \in {None, Some(<<"3">>)},
        tok \in {None, Some(<<"x">>)},
        pm \in {None, Some(<<"T","R","U","E">>), Some(<<"n","o">>)},
        al \in {None, Some(<<"f","a","l","s","e">>)},
        dbg \in {None, Some(<<"T","r","u","e">>)},
        ll \in {None, Some("DEBUG")} }

InitConfig ==
    InitCall("Config", ConfigEnvironments,
             [project_env : {None}, user_env : {None}, key_file : {None},
              token : {TRUE}])

\* one construction of Config: the object, or the error it raises
ConfigConstruct ==
    /\ cmd = "Config" /\ pc = "start"
    /\ LET c == ConfigInit(environ)
       IN  IF c.kind = "ok"
           THEN /\ config' = Some(c.config)
                /\ UNCHANGED error
           ELSE /\ error' = Some(c.error)
                /\ UNCHANGED config
    /\ pc' = "done"
    /\ UNCHANGED <<cmd, args, exit_code, stdout, stderr, environ, files,
                   api_key, conversation_history, last_call, n_calls, cleared,
                   n_saves, user_input, turn, events>>
    /\ UNCHANGED <<is_first_run, confirmed, connects, relay_history, n_clears, runs>>

NextConfig == ConfigConstruct

SpecConfig == InitConfig /\ [][NextConfig]_vars

----------------------------------------------------------------------------
(* Claims about get_api_key, checked under SpecKey.                        *)

KeyCallDone == cmd = "get_api_key" /\ pc = "done"

\* the key file holds a key: it exists and is not blank
KeyInFile == files.key_file # None /\ Strip(files.key_file[1]) # <<>>

\* the process ended with the error report and exit code 1, returning nothing
KeyMissingExit ==
    /\ api_key = None
    /\ exit_code = Some(1)
    /\ stderr # <<>>
    /\ stderr[1] = <<"Error: Anthropic API key not found.">>

\* C5 as stated: whenever ANTHROPIC_API_KEY is set its value is returned;
\* otherwise the trimmed key of the fallback file; otherwise exit code 1.
C5_EnvironmentValueWhenSet ==
    KeyCallDone =>
        IF "ANTHROPIC_API_KEY" \in DOMAIN environ
        THEN api_key = Some(environ["ANTHROPIC_API_KEY"]) /\ exit_code = None
        ELSE IF KeyInFile
        THEN api_key = Some(Strip(files.key_file[1])) /\ exit_code = None
        ELSE KeyMissingExit

\* C5 as amended: when ANTHROPIC_API_KEY is set to a non-empty text, that
\* text trimmed is returned; otherwise (unset or empty) the trimmed key of
\* the fallback file when the file holds one; otherwise the error is
\* reported and the process ends with exit code 1 without returning.
C5_ResolutionOrder ==
    KeyCallDone =>
        IF "ANTHROPIC_API_KEY" \in DOMAIN environ /\ environ["ANTHROPIC_API_KEY"] # <<>>
        THEN api_key = Some(Strip(environ["ANTHROPIC_API_KEY"])) /\ exit_code = None
        ELSE IF KeyInFile
        THEN api_key = Some(Strip(files.key_file[1])) /\ exit_code = None
        ELSE KeyMissingExit

\* C5 witness: the key is only in the fallback file, which ends with a
\* newline, and the call returned it trimmed.
C5_Witness ==
    /\ KeyCallDone
    /\ "ANTHROPIC_API_KEY" \notin DOMAIN environ
    /\ files.key_file = Some(<<"k", "\n">>)
    /\ api_key = Some(<<"k">>)

\* C12: whenever get_api_key returns, whatever ANTHROPIC_API_KEY (unset,
\* empty, whitespace only, not blank) and the fallback file (absent, empty,
\* whitespace only, not blank) hold, the key returned is not empty and has
\* no whitespace at either end.
C12_ReturnedKeyIsTrimmedNonEmpty ==
    (KeyCallDone /\ api_key # None) =>
        /\ api_key[1] # <<>>
        /\ api_key[1][1] \notin Whitespace
        /\ api_key[1][Len(api_key[1])] \notin Whitespace

----------------------------------------------------------------------------
(* Claims about Config(), checked under SpecConfig.                        *)

\* C6: whatever the settings' environment variables hold, set or unset,
\* constructing Config completes without error, and an unset setting takes
\* its default (Europe/Berlin, 9, 17, 60, 5).
C6_ConfigNeverFails ==
    (cmd = "Config" /\ pc = "done") =>
        /\ error = None
        /\ config # None
        /\ "TIMEZONE" \notin DOMAIN environ =>
              config[1].default_timezone = <<"Europe", "Berlin">>
        /\ "BUSINESS_HOURS_START" \notin DOMAIN environ =>
              config[1].business_hours_start = 9
        /\ "BUSINESS_HOURS_END" \notin DOMAIN environ =>
              config[1].business_hours_end = 17
        /\ "DEFAULT_DURATION" \notin DOMAIN environ =>
              config[1].default_duration = 60
        /\ "MAX_SUGGESTIONS" \notin DOMAIN environ =>
              config[1].max_suggestions = 5

----------------------------------------------------------------------------
(* The one-shot subcommands: schedule, upcoming, auth, setup.              *)

\* How a run of a subcommand ends: what it wrote, what it called, its exit
\* code, and the error it ended on (None when there was none).
Ending(out, err, code, e) ==
    [stdout |-> out, stderr |-> err, exit_code |-> code, error |-> e,
     call |-> None, events |-> None, saved |-> None, saves |-> 0]

\* ' '.join(words) with a fault: the words are joined without the space.
RECURSIVE Join_NoSeparator(_)
Join_NoSeparator(words) ==
    IF words = <<>> THEN <<>>
    ELSE Head(words) \o Join_NoSeparator(Tail(words))

\* ' '.join(words)
RECURSIVE Join(_)
Join(words) ==
    IF words = <<>> THEN <<>>
    ELSE IF Len(words) = 1 THEN words[1]
    ELSE words[1] \o <<" ">> \o Join(Tail(words))

\* except Exception in schedule, lines 260-265
ScheduleError(a, e) ==
    Ending(<<>>,
           << <<"Error: ", e>> >> \o (IF a.debug THEN <<Traceback(e)>> ELSE <<>>),
           1, Some(e))

\* schedule, lines 236-265: every way a run with arguments a can end
ScheduleEndings(a, env, fs) ==
    LET message_text == Join(a.message)
        k == GetApiKey(env, fs.key_file)
        c == ConfigInit(env)
    IN  { ScheduleError(a, r) : r \in CalendarServiceOutcomes \ {"ok"} }
        \cup
        ( IF k.kind = "exit"
          THEN \* sys.exit passes through except Exception
               { Ending(<<>>, k.err, k.code, Some("SystemExit")) }
          ELSE IF c.kind = "raise"
          THEN { ScheduleError(a, c.error) }
          ELSE { IF o.kind = "return"
                 THEN [Ending(<< <<"", o.response>> >>, <<>>, 0, None)
                          EXCEPT !.call = Some(<<message_text>>)]
                 ELSE [ScheduleError(a, o.error)
                          EXCEPT !.call = Some(<<message_text>>)]
                 : o \in ProcessMessage(message_text, <<>>) } )

\* the events the calendar gateway may return for max_results = n
Event(summary, dateTime, date) ==
    [summary |-> summary, dateTime |-> dateTime, date |-> date]

EventLists(n) ==
    { l \in { <<>>,
              << Event(Some("Standup"), Some("2026-01-05T09:00:00+01:00"), None) >>,
              << Event(Some("Standup"), Some("2026-01-05T09:00:00+01:00"), None),
                 Event(None, None, Some("2026-01-06")) >> } :
        Len(l) <= n }

\* the lines printed for one event, lines 465-470
EventLines(event) ==
    LET start == IF event.dateTime # None THEN event.dateTime[1]
                 ELSE IF event.date # None THEN event.date[1]
                 ELSE "None"
        summary == IF event.summary # None THEN event.summary[1] ELSE "No title"
    IN  << <<"  - ", summary>>, <<"    ", start>>, <<"">> >>

RECURSIVE EventsLines(_)
EventsLines(l) ==
    IF l = <<>> THEN <<>> ELSE EventLines(Head(l)) \o EventsLines(Tail(l))

\* UpcomingOutput with a fault: the empty list is not told apart.
UpcomingOutput_NoEmptyCheck(l) ==
    << <<"Upcoming ", Len(l), " events:">> >> \o EventsLines(l)

\* what upcoming prints for the events it got, lines 459-470
UpcomingOutput(l) ==
    IF l = <<>>
    THEN << <<"No upcoming events found.">> >>
    ELSE << <<"Upcoming ", Len(l), " events:">> >> \o EventsLines(l)

\* upcoming, lines 444-474: every way a run with arguments a can end
UpcomingEndings(a, env, fs) ==
    LET c == ConfigInit(env)
        failed(e) == Ending(<<>>, << <<"Error: ", e>> >>, 1, Some(e))
    IN  { failed(r) : r \in CalendarServiceOutcomes \ {"ok"} }
        \cup
        ( IF c.kind = "raise"
          THEN { failed(c.error) }
          ELSE { failed("CalendarApiError") }
               \cup
               { [Ending(UpcomingOutput(l), <<>>, 0, None) EXCEPT !.events = Some(l)]
                 : l \in EventLists(a.count) } )

\* auth, lines 276-288: every way a run can end
AuthEndings ==
    LET failed(e) ==
            Ending(<< <<"Starting Google Calendar authentication...">> >>,
                   << <<"Authentication failed: ", e>> >>, 1, Some(e))
    IN  { failed(r) : r \in (CalendarServiceOutcomes \ {"ok"}) \cup {"HttpError"} }
        \cup
        { Ending(<< <<"Starting Google Calendar authentication...">>,
                    <<"Successfully authenticated!">>,
                    <<"Connected to calendar: ", summary>> >>,
                 <<>>, 0, None)
          : summary \in {"Primary", "Work"} }

\* pytz.timezone(name) succeeds: the names of the timezone database
KnownTimezones ==
    { <<"Europe", "Berlin">>, <<"Europe", "London">>, <<"America", "New_York">>,
      <<"Asia", "Tokyo">>, <<"UTC">> }

IsValidTimezone(tz) == tz \in KnownTimezones

\* get_common_timezones()
CommonTimezones ==
    << <<"Europe", "Berlin">>, <<"America", "New_York">>, <<"Europe", "London">>,
       <<"Asia", "Tokyo">> >>

\* detect_system_timezone() returns one of these
DetectedTimezones == { <<"Europe", "Berlin">>, <<"UTC">> }

\* what the user types when asked for a custom timezone
CustomTimezones == { <<"Asia", "Tokyo">>, <<"Foo", "Bar">> }

RegionOrder == <<"Europe", "America", "Asia", "Australia", "Pacific", "UTC">>

\* the numbered menu of setup, lines 348-368: the timezones grouped by
\* region in the order of RegionOrder, UTC being listed in any case
RECURSIVE MenuFrom(_, _)
MenuFrom(timezones, i) ==
    IF i > Len(RegionOrder) THEN <<>>
    ELSE LET inRegion(tz) == tz[1] = RegionOrder[i]
             tzs == SelectSeq(timezones, inRegion)
         IN  (IF tzs = <<>> /\ RegionOrder[i] = "UTC" THEN << <<"UTC">> >> ELSE tzs)
             \o MenuFrom(timezones, i + 1)

TzMap == MenuFrom(CommonTimezones, 1)

SetupTail ==
    << <<"Setup complete! You can now use 'claude-meet chat' to start scheduling.">>,
       <<"Tip: Run 'claude-meet config' to view your current settings.">> >>

\* setup --timezone tz, lines 317-328
SetupDirect(tz) ==
    IF IsValidTimezone(tz)
    THEN { [Ending(<< <<"Timezone set to: ", tz>>, <<"Saved to: ", "~/.claude-meet/.env">> >>
                     \o SetupTail,
                   <<>>, 0, None)
               EXCEPT !.saved = Some(tz), !.saves = 1],
           \* save_timezone raises: the same handler reports the timezone
           [Ending(<< <<"Use 'claude-meet setup' without arguments to see available options.">> >>,
                   << <<"Invalid timezone: ", tz>> >>, 0, Some("OSError"))
               EXCEPT !.saves = 1] }
    ELSE { Ending(<< <<"Use 'claude-meet setup' without arguments to see available options.">> >>,
                  << <<"Invalid timezone: ", tz>> >>, 0,
                  Some("UnknownTimeZoneError")) }

\* the end of the interactive setup once a timezone is selected, lines 395-404
SetupSave(shown, selected_tz) ==
    { [Ending(shown \o << <<"Timezone set to: ", selected_tz>>,
                          <<"Configuration saved to: ", "~/.claude-meet/.env">> >>
                    \o SetupTail,
              <<>>, 0, None)
          EXCEPT !.saved = Some(selected_tz), !.saves = 1],
      \* nothing catches an error of save_timezone here
      [Ending(shown, <<Traceback("OSError")>>, 1, Some("OSError"))
          EXCEPT !.saves = 1] }

\* setup without a timezone, lines 330-399
SetupInteractive ==
    UNION { LET shown == << <<"Detected system timezone: ", detected_tz>> >>
                menu == shown \o << <<"Common timezones:">> >>
                idx == Len(TzMap) + 1
            IN  SetupSave(shown, detected_tz)
                \cup UNION { IF choice = idx
                             THEN UNION { IF IsValidTimezone(selected_tz)
                                          THEN SetupSave(menu, selected_tz)
                                          ELSE { Ending(menu \o << <<"Invalid timezone: ", selected_tz>> >>,
                                                        <<>>, 0, Some("UnknownTimeZoneError")) }
                                          : selected_tz \in CustomTimezones }
                             ELSE IF choice \in DOMAIN TzMap
                             THEN SetupSave(menu, TzMap[choice])
                             ELSE { Ending(menu \o << <<"Invalid selection">> >>,
                                           <<>>, 0, Some("Invalid selection")) }
                             : choice \in 0 .. (idx + 1) }
            : detected_tz \in DetectedTimezones }

\* setup, lines 311-404: every way a run with arguments a can end
SetupEndings(a) ==
    IF a.timezone # None /\ Truthy(a.timezone[1])
    THEN SetupDirect(a.timezone[1])
    ELSE SetupInteractive

\* A subcommand runs from its start to the end r.
RunTo(r) ==
    /\ pc' = "done"
    /\ stdout' = r.stdout
    /\ stderr' = r.stderr
    /\ exit_code' = Some(r.exit_code)
    /\ error' = r.error
    /\ last_call' = r.call
    /\ n_calls' = IF r.call = None THEN 0 ELSE 1
    /\ events' = r.events
    /\ files' = IF r.saved = None THEN files ELSE SaveTimezone(files, r.saved[1])
    /\ n_saves' = r.saves
    /\ UNCHANGED <<cmd, args, config, api_key, conversation_history, cleared,
                   user_input, turn>>
    /\ UNCHANGED <<is_first_run, confirmed, connects, relay_history, n_clears, runs>>

Schedule ==
    /\ cmd = "schedule" /\ pc = "start"
    /\ environ' = LoadSettings(environ, files)
    /\ \E r \in ScheduleEndings(args, LoadSettings(environ, files), files) : RunTo(r)

Upcoming ==
    /\ cmd = "upcoming" /\ pc = "start"
    /\ environ' = LoadSettings(environ, files)
    /\ \E r \in UpcomingEndings(args, LoadSettings(environ, files), files) : RunTo(r)

Auth ==
    /\ cmd = "auth" /\ pc = "start"
    /\ UNCHANGED environ
    /\ \E r \in AuthEndings : RunTo(r)

Setup ==
    /\ cmd = "setup" /\ pc = "start"
    /\ UNCHANGED environ
    /\ \E r \in SetupEndings(args) : RunTo(r)

\* config, lines 407-435: the settings are loaded, the Config is built and
\* shown; nothing catches the ValueError of Config()
ConfigEndings(env) ==
    LET c == ConfigInit(env)
    IN  IF c.kind = "raise"
        THEN { Ending(<<>>, <<Traceback(c.error)>>, 1, Some(c.error)) }
        ELSE { Ending(<< <<"Current Configuration">>,
                         <<"  Timezone:        ", c.config.default_timezone>>,
                         <<"  Business hours:  ", c.config.business_hours_start,
                           ":00 - ", c.config.business_hours_end, ":00">>,
                         <<"  Default meeting: ", c.config.default_duration, " minutes">>,
                         <<"  Prefer morning:  ", c.config.prefer_morning>>,
                         <<"  Config file:     ", "get_env_file_path()">>,
                         <<"To change timezone: claude-meet setup">>,
                         <<"To change timezone directly: claude-meet setup --timezone Europe/London">> >>,
                      <<>>, 0, None) }

ShowConfig ==
    /\ cmd = "config" /\ pc = "start"
    /\ environ' = LoadSettingsNoOverride(environ, files)
    /\ \E r \in ConfigEndings(LoadSettingsNoOverride(environ, files)) : RunTo(r)

\* the command lines of the one-shot subcommands
CommandLines ==
    { <<"schedule", [message |-> m, debug |-> d]>> :
        m \in { << <<"h","i">> >>,
                << <<"a">>, <<"b","c">> >>,
                << <<"a"," ","b">>, <<"c">>, <<"d">> >> },
        d \in BOOLEAN }
    \cup { <<"upcoming", [count |-> n]>> : n \in {10, 1, 0} }
    \cup { <<"auth", <<>> >>, <<"config", <<>> >> }
    \cup { <<"setup", [timezone |-> tz]>> :
             tz \in { None, Some(<<>>), Some(<<"Europe", "Berlin">>),
                      Some(<<"Foo", "Bar">>) } }

CliEnvironments ==
    { EnvOf([TIMEZONE |-> tz, ANTHROPIC_API_KEY |-> key, BUSINESS_HOURS_START |-> bhs]) :
        tz \in {None, Some(<<"Europe", "London">>)},
        key \in {None, Some(<<"k">>)},
        bhs \in {None, Some(<<"a","b","c">>)} }

CliFiles ==
    [project_env : {None, Some([TIMEZONE |-> <<"America", "New_York">>])},
     user_env : {None, Some([TIMEZONE |-> <<"Asia", "Tokyo">>])},
     key_file : {None},
     token : {TRUE}]

InitCli ==
    /\ \E cl \in CommandLines : cmd = cl[1] /\ args = cl[2]
    /\ pc = "start"
    /\ exit_code = None
    /\ stdout = <<>>
    /\ stderr = <<>>
    /\ environ \in CliEnvironments
    /\ files \in CliFiles
    /\ config = None
    /\ api_key = None
    /\ conversation_history = <<>>
    /\ last_call = None
    /\ n_calls = 0
    /\ cleared = FALSE
    /\ n_saves = 0
    /\ user_input = None
    /\ turn = "none"
    /\ events = None
    /\ error = None
    /\ is_first_run = None
    /\ confirmed = None
    /\ connects = 0
    /\ relay_history = NoRelayHistory
    /\ n_clears = 0
    /\ runs = 0

NextCli ==
    \/ Schedule
    \/ Upcoming
    \/ Auth
    \/ Setup
    \/ ShowConfig

SpecCli == InitCli /\ [][NextCli]_vars

----------------------------------------------------------------------------
(* Claims about the one-shot subcommands, checked under SpecCli.           *)

CliDone == cmd \in {"schedule", "upcoming", "auth", "setup"} /\ pc = "done"

\* C7: setup --timezone TZ with a TZ that is no valid timezone name reports
\* an "invalid timezone" error and never calls save_timezone, so that the
\* saved timezone stays as it was.
C7_InvalidTimezoneNeverSaved ==
    (CliDone /\ cmd = "setup" /\ args.timezone # None
        /\ ~IsValidTimezone(args.timezone[1]))
    => /\ n_saves = 0
       /\ \E i \in DOMAIN stderr : stderr[i][1] = "Invalid timezone: "

\* C8: a run of a subcommand that succeeded ends with exit code 0; a run
\* that ended on an error ends with another exit code and has written the
\* error to the error stream.
C8_ExitCodeReflectsOutcome ==
    CliDone =>
        /\ error = None => exit_code = Some(0)
        /\ error # None => (exit_code # Some(0) /\ stderr # <<>>)

\* the words of each schedule command line of the model, joined by hand
C9_JoinedText(m) ==
    CASE m = << <<"h","i">> >> -> <<"h","i">>
      [] m = << <<"a">>, <<"b","c">> >> -> <<"a"," ","b","c">>
      [] m = << <<"a"," ","b">>, <<"c">>, <<"d">> >> -> <<"a"," ","b"," ","c"," ","d">>

\* C9: a schedule run in which no collaborator fails calls process_message
\* exactly once, with the words joined by single spaces and no history,
\* prints the response and ends with exit code 0.
C9_ScheduleSingleCall ==
    (CliDone /\ cmd = "schedule" /\ error = None) =>
        /\ n_calls = 1
        /\ last_call = Some(<<C9_JoinedText(args.message)>>)
        /\ stdout = << <<"", ReplyText>> >>
        /\ stderr = <<>>
        /\ exit_code = Some(0)

\* C9 witness: a successful run of schedule with three words.
C9_Witness ==
    /\ CliDone /\ cmd = "schedule" /\ error = None
    /\ Len(args.message) = 3
    /\ n_calls = 1

\* C10: when the gateway returns zero events, upcoming prints exactly
\* "No upcoming events found." and ends with exit code 0.
C10_NoUpcomingEvents ==
    (CliDone /\ cmd = "upcoming" /\ events = Some(<<>>)) =>
        /\ stdout = << <<"No upcoming events found.">> >>
        /\ stderr = <<>>
        /\ exit_code = Some(0)

\* C10 witness: upcoming with the default count got no events.
C10_Witness ==
    /\ CliDone /\ cmd = "upcoming" /\ args.count = 10
    /\ events = Some(<<>>)
    /\ error = None

\* C14: for the same process environment, project .env and per-user
\* settings file, the timezone the config subcommand prints is the timezone
\* of the Config that chat, schedule and upcoming build, also when TIMEZONE
\* is set in the environment and, to another value, in the per-user file.
C14_ConfigShowsUsedTimezone ==
    [][ (cmd = "config" /\ pc = "start" /\ exit_code' = Some(0)) =>
          LET used == ConfigInit(LoadSettings(environ, files))
          IN  /\ used.kind = "ok"
              /\ \E i \in DOMAIN stdout' :
                    /\ stdout'[i][1] = "  Timezone:        "
                    /\ stdout'[i][2] = used.config.default_timezone ]_vars

----------------------------------------------------------------------------
(* logout run again and again, cli.py lines 291-299.                       *)

\* Logout with a fault: the message is printed and nothing is cleared.
Logout_NoClear ==
    /\ cmd = "logout" /\ pc = "start"
    /\ stdout' = << <<"Credentials cleared. Run 'claude-meet auth' to re-authenticate.">> >>
    /\ pc' = "done"
    /\ exit_code' = Some(0)
    /\ UNCHANGED <<cmd, args, stderr, environ, files, config, api_key,
                   conversation_history, last_call, n_calls, cleared, n_saves,
                   user_input, turn, events, error, is_first_run, confirmed,
                   connects, relay_history, n_clears, runs>>

\* one run of logout: the credentials are cleared, the message is printed
Logout ==
    /\ cmd = "logout" /\ pc = "start"
    /\ files' = ClearCredentials(files)
    /\ n_clears' = n_clears + 1
    /\ stdout' = << <<"Credentials cleared. Run 'claude-meet auth' to re-authenticate.">> >>
    /\ pc' = "done"
    /\ exit_code' = Some(0)
    /\ UNCHANGED <<cmd, args, stderr, environ, config, api_key,
                   conversation_history, last_call, n_calls, cleared, n_saves,
                   user_input, turn, events, error, is_first_run, confirmed,
                   connects, relay_history, runs>>

\* the command is run once more: a new process, the files as they were left
LogoutAgain ==
    /\ cmd = "logout" /\ pc = "done"
    /\ runs + 1 < MaxRuns
    /\ runs' = runs + 1
    /\ pc' = "start"
    /\ exit_code' = None
    /\ stdout' = <<>>
    /\ n_clears' = 0
    /\ UNCHANGED <<cmd, args, stderr, environ, files, config, api_key,
                   conversation_history, last_call, n_calls, cleared, n_saves,
                   user_input, turn, events, error, is_first_run, confirmed,
                   connects, relay_history>>

InitLogout ==
    InitCall("logout", CliEnvironments,
             [project_env : {None, Some([TIMEZONE |-> <<"America", "New_York">>])},
              user_env : {None, Some([TIMEZONE |-> <<"Asia", "Tokyo">>])},
              key_file : {None},
              token : BOOLEAN])

NextLogout ==
    \/ Logout
    \/ LogoutAgain

SpecLogout == InitLogout /\ [][NextLogout]_vars

\* what a finished run of logout left: one clear, the message, no error,
\* exit code 0 and no token file
C11_RunCleared ==
    (cmd = "logout" /\ pc = "done") =>
        /\ n_clears = 1
        /\ stdout = << <<"Credentials cleared. Run 'claude-meet auth' to re-authenticate.">> >>
        /\ stderr = <<>>
        /\ error = None
        /\ exit_code = Some(0)
        /\ ~files.token

\* C11: clearing credentials is idempotent.  Each run of logout calls the
\* credential store's clear exactly once and ends without error, with exit
\* code 0 and no token file, whether or not there was a token file; a run
\* that follows another changes nothing the first one left.
C11_LogoutIdempotent ==
    /\ []C11_RunCleared
    /\ [][ (cmd = "logout" /\ pc = "start" /\ runs > 0) =>
              /\ pc' = "done"
              /\ files' = files
              /\ exit_code' = Some(0) ]_vars

\* C11 witness: logout ran twice in a row, the second run is over.
C11_Witness ==
    /\ cmd = "logout" /\ pc = "done" /\ runs = 1
    /\ n_clears = 1 /\ exit_code = Some(0) /\ ~files.token

============================================================================
